---- MODULE Spec2Model ----
(***************************************************************************)
(* Tenant secret management of enablebot/shared/encryption/encryption.py:  *)
(* KeyManager (key cache, key generation, key resolution, rotation),       *)
(* TokenEncryption (AES-256-GCM with the tenant id as AAD), AuditLogger    *)
(* and the two audited entry points encrypt_slack_token and                *)
(* decrypt_slack_token.                                                    *)
(*                                                                         *)
(* The coroutines are cut at their network awaits (the KeyStore GET and    *)
(* POST, the rotation RPC, the audit POST): one action runs a coroutine    *)
(* from one await to the next.  The clock is in days and advances between  *)
(* calls only (a network call is bounded by the HTTP client's timeout).    *)
(***************************************************************************)
EXTENDS Integers, Sequences, FiniteSets, TLC

VARIABLES now, store, cache, mode, task, audit, nextMat, tenants

vars == <<now, store, cache, mode, task, audit, nextMat, tenants>>

----------------------------------------------------------------------------
(* Program constants *)

NonceLen == 12
KeyTTLDays == 90
MinTokenLen == 50
NoKey == 0

(* Bounds of the model *)

MaxGen == 1
MaxTicks == 1
MaxAudit == 1

(* The clock advances by one key lifetime. *)
TickDays == KeyTTLDays

(* The processes and coroutines that exist, and those that run under Spec: *)
(* one process whose calls follow one another.                             *)
AllProcs == {"web", "api"}
AllTasks == {1, 2}
Procs == {"web"}
Tasks == {1}
(* Key ids: 1..MaxGen are the ids generate_key derives from a random token *)
(* and a timestamp (the n-th generated key); ExplicitId is a caller's id.  *)
ExplicitId == MaxGen + 1
GenIds == 1..MaxGen
KeyIds == 1..ExplicitId
Tenants == {"team-A", "team-B"}

----------------------------------------------------------------------------
(* Tokens: Python values passed as the secret.  str is FALSE for a value   *)
(* that is not a string (None); chars are the characters of a string.      *)

XoxbPrefix == <<"x", "o", "x", "b", "-">>

Fill(n, ch) == [i \in 1..n |-> ch]

Str(chars) == [str |-> TRUE, chars |-> chars]

NoneTok == [str |-> FALSE, chars |-> <<>>]

TokA == Str(XoxbPrefix \o Fill(MinTokenLen - 5, "a"))
TokB == Str(XoxbPrefix \o Fill(MinTokenLen - 4, "b"))
TokShort == Str(XoxbPrefix \o Fill(MinTokenLen - 6, "a"))

Tokens == {TokA, TokB, TokShort}

(* A Python str can hold a lone surrogate (json.loads gives one for an     *)
(* escape such as \udc80); str.encode('utf-8') refuses it.                 *)
LoneSurrogate == "u+dc80"

TokSurrogate == Str(XoxbPrefix \o Fill(MinTokenLen - 6, "a") \o <<LoneSurrogate>>)

(* token.encode('utf-8'), line 202: the bytes, or UnicodeEncodeError,      *)
(* whose message quotes the first character that cannot be encoded.        *)
Utf8Encode(token) ==
    LET bad == { i \in 1..Len(token.chars) : token.chars[i] = LoneSurrogate } IN
    IF bad = {} THEN [ok |-> TRUE, quoted |-> ""]
    ELSE [ok |-> FALSE,
          quoted |-> token.chars[CHOOSE i \in bad : \A j \in bad : i <= j]]

StartsWith(chars, prefix) ==
    /\ Len(chars) >= Len(prefix)
    /\ SubSeq(chars, 1, Len(prefix)) = prefix

(* Mutant: the length check refuses a token of exactly the minimum length. *)
ValidateTokenFormatStrict(token) ==
    IF ~token.str \/ token.chars = <<>> THEN FALSE
    ELSE IF ~StartsWith(token.chars, XoxbPrefix) THEN FALSE
    ELSE IF Len(token.chars) <= MinTokenLen THEN FALSE
    ELSE TRUE

ValidateTokenFormat(token) ==
    IF ~token.str \/ token.chars = <<>> THEN FALSE
    ELSE IF ~StartsWith(token.chars, XoxbPrefix) THEN FALSE
    ELSE IF Len(token.chars) < MinTokenLen THEN FALSE
    ELSE TRUE

----------------------------------------------------------------------------
(* AES-256-GCM and the blob format.  The ciphertext-and-tag is symbolic:   *)
(* the ciphertext is one element (the plaintext in counter mode under the  *)
(* key and the nonce), the tag a second element that authenticates the     *)
(* key, the nonce, the AAD and the ciphertext; x is what was xor-ed into   *)
(* the tag since it was computed.                                          *)

(* secrets.token_bytes(NonceLen): the nonces the protect calls draw. *)
NonceBytes == {0}

Nonces == { Fill(NonceLen, b) : b \in NonceBytes }

(* Mutant: the AAD does not carry the tenant id. *)
AadUnbound(tenant_id) == <<"tenant:", "">>

Aad(tenant_id) == <<"tenant:", tenant_id>>

CtrEncrypt(key, nonce, plaintext) == [k |-> key, n |-> nonce, p |-> plaintext]

CtrDecrypt(key, nonce, ct) ==
    IF ct.k = key /\ ct.n = nonce THEN ct.p ELSE NoneTok

GcmTag(key, nonce, aad, ct) == [k |-> key, n |-> nonce, a |-> aad, c |-> ct, x |-> 0]

AesGcmEncrypt(key, nonce, plaintext, aad) ==
    LET ct == CtrEncrypt(key, nonce, plaintext)
    IN  << ct, GcmTag(key, nonce, aad, ct) >>

(* Mutant: the plaintext is released without verifying the tag. *)
AesGcmDecryptNoTag(key, nonce, ciphertext, aad) ==
    IF Len(ciphertext) = 2
    THEN [ok |-> TRUE, p |-> CtrDecrypt(key, nonce, ciphertext[1])]
    ELSE [ok |-> FALSE, p |-> NoneTok]

AesGcmDecrypt(key, nonce, ciphertext, aad) ==
    IF /\ Len(ciphertext) = 2
       /\ ciphertext[2] = GcmTag(key, nonce, aad, ciphertext[1])
    THEN [ok |-> TRUE, p |-> CtrDecrypt(key, nonce, ciphertext[1])]
    ELSE [ok |-> FALSE, p |-> NoneTok]

B64Encode(bytes) == [b64 |-> bytes]

B64Decode(text) == text.b64

NoBlob == B64Encode(<<>>)

EncryptBlob(key, nonce, token, tenant_id) ==
    B64Encode(nonce \o AesGcmEncrypt(key, nonce, token, Aad(tenant_id)))

(* Mutant: the nonce is cut one byte short of the blob's nonce. *)
DecryptBlobShortNonce(key, blob, tenant_id) ==
    LET encrypted_data == B64Decode(blob)
        nonce == SubSeq(encrypted_data, 1, NonceLen - 1)
        ciphertext == SubSeq(encrypted_data, NonceLen, Len(encrypted_data))
    IN  AesGcmDecrypt(key, nonce, ciphertext, Aad(tenant_id))

DecryptBlob(key, blob, tenant_id) ==
    LET encrypted_data == B64Decode(blob)
        nonce == SubSeq(encrypted_data, 1, NonceLen)
        ciphertext == SubSeq(encrypted_data, NonceLen + 1, Len(encrypted_data))
    IN  AesGcmDecrypt(key, nonce, ciphertext, Aad(tenant_id))

(* What a caller can hold from earlier protect calls: team-A's token sealed *)
(* under a key generated so far, with the id of that key (the n-th         *)
(* generated key has id n and material n).                                 *)
Stored(mats) ==
    { <<EncryptBlob(m, n, TokA, "team-A"), m>> : m \in mats, n \in Nonces }

----------------------------------------------------------------------------
(* KeyStore rows (table encryption_keys) and the key cache (a Python dict: *)
(* a sequence of entries in insertion order, one per key id).  aware marks *)
(* an expires_at parsed from the store's timestamptz text (an aware        *)
(* datetime); datetime.now() is naive and ordering the two raises          *)
(* TypeError.                                                              *)

NoRow == [present |-> FALSE, key_data |-> 0, created_at |-> 0,
          expires_at |-> 0, status |-> "none"]

Row(key_data, created_at, expires_at) ==
    [present |-> TRUE, key_data |-> key_data, created_at |-> created_at,
     expires_at |-> expires_at, status |-> "active"]

Entry(id, key, created_at, expires_at, aware) ==
    [id |-> id, key |-> key, created_at |-> created_at,
     expires_at |-> expires_at, aware |-> aware]

CacheIds(c) == { c[i].id : i \in 1..Len(c) }

CacheHas(c, id) == id \in CacheIds(c)

CacheGet(c, id) == c[CHOOSE i \in 1..Len(c) : c[i].id = id]

CachePut(c, e) ==
    IF CacheHas(c, e.id)
    THEN [i \in 1..Len(c) |-> IF c[i].id = e.id THEN e ELSE c[i]]
    ELSE Append(c, e)

CacheDel(c, id) == SelectSeq(c, LAMBDA e : e.id # id)

(* get_key, lines 57-63: the cache lookup. *)
GetKeyCached(c, key_id, t) ==
    IF CacheHas(c, key_id)
    THEN LET cached_key == CacheGet(c, key_id) IN
         IF cached_key.aware
         THEN [kind |-> "typeerror", key |-> 0, cache |-> c]
         ELSE IF cached_key.expires_at > t
         THEN [kind |-> "hit", key |-> cached_key.key, cache |-> c]
         ELSE [kind |-> "miss", key |-> 0, cache |-> CacheDel(c, key_id)]
    ELSE [kind |-> "miss", key |-> 0, cache |-> c]

(* The KeyStore's answer to GET encryption_keys?id=eq.<id>&status=eq.active *)
StoreSelectActive(st, key_id) ==
    IF st[key_id].present /\ st[key_id].status = "active"
    THEN <<st[key_id]>> ELSE <<>>

(* get_key, lines 76-90: the response of the KeyStore. *)
GetKeyFetched(c, key_id, st, http_ok) ==
    LET data == IF http_ok THEN StoreSelectActive(st, key_id) ELSE <<>> IN
    IF data # <<>>
    THEN [found |-> TRUE, key |-> data[1].key_data,
          cache |-> CachePut(c, Entry(key_id, data[1].key_data,
                                      data[1].created_at, data[1].expires_at, TRUE))]
    ELSE [found |-> FALSE, key |-> 0, cache |-> c]

(* get_active_key_id, lines 162-165: the first entry in iteration order    *)
(* that has not expired.                                                   *)
(* Mutant: the first entry is returned whether it has expired or not. *)
ActiveScanFirst(c, i, t) ==
    IF i > Len(c) THEN [kind |-> "none", id |-> NoKey]
    ELSE [kind |-> "found", id |-> c[i].id]

RECURSIVE ActiveScan(_, _, _)
ActiveScan(c, i, t) ==
    IF i > Len(c) THEN [kind |-> "none", id |-> NoKey]
    ELSE IF c[i].aware THEN [kind |-> "typeerror", id |-> NoKey]
    ELSE IF c[i].expires_at > t THEN [kind |-> "found", id |-> c[i].id]
    ELSE ActiveScan(c, i + 1, t)

(* _store_key, lines 101-121: POST encryption_keys.  The id is the primary *)
(* key: a second row for it is refused (409), never overwritten.           *)
StoreInsert(st, key_id, key_data, expires_at, t, http_ok) ==
    IF http_ok /\ ~st[key_id].present
    THEN [st EXCEPT ![key_id] = Row(key_data, t, expires_at)]
    ELSE st

(* The store's rotation primitive rotate_encryption_keys: marks the active *)
(* keys whose expires_at has passed as expired.                            *)
RotateRpc(st, t) ==
    [k \in KeyIds |->
        IF st[k].present /\ st[k].status = "active" /\ st[k].expires_at <= t
        THEN [st[k] EXCEPT !.status = "expired"] ELSE st[k]]

(* Mutant: when the comparison with now raises, the cache is dropped. *)
RotateEvictDropping(c, t) ==
    IF \E i \in 1..Len(c) : c[i].aware
    THEN [kind |-> "typeerror", n |-> 0, cache |-> <<>>]
    ELSE LET expired_keys == { c[i].id : i \in { j \in 1..Len(c) : c[j].expires_at <= t } }
         IN  [kind |-> "ok", n |-> Cardinality(expired_keys),
              cache |-> SelectSeq(c, LAMBDA e : e.id \notin expired_keys)]

(* rotate_keys, lines 140-147: evict the expired entries of the cache. *)
RotateEvict(c, t) ==
    IF \E i \in 1..Len(c) : c[i].aware
    THEN [kind |-> "typeerror", n |-> 0, cache |-> c]
    ELSE LET expired_keys == { c[i].id : i \in { j \in 1..Len(c) : c[j].expires_at <= t } }
         IN  [kind |-> "ok", n |-> Cardinality(expired_keys),
              cache |-> SelectSeq(c, LAMBDA e : e.id \notin expired_keys)]

(* The ids of the entries at or past their expiry. *)
ExpiredKeys(c, t) ==
    { c[i].id : i \in { j \in 1..Len(c) : ~c[j].aware /\ c[j].expires_at <= t } }

(* Mutant: the list of expired ids is made before the rotation request is  *)
(* awaited (tk.snap) and deleted from the cache after it; del raises       *)
(* KeyError for an id that is no longer there.                             *)
RotateApplySnapshot(tk, c, t) ==
    IF \E id \in tk.snap : ~CacheHas(c, id)
    THEN [kind |-> "keyerror", n |-> 0,
          cache |-> SelectSeq(c, LAMBDA e : e.id \notin tk.snap)]
    ELSE [kind |-> "ok", n |-> Cardinality(tk.snap),
          cache |-> SelectSeq(c, LAMBDA e : e.id \notin tk.snap)]

(* rotate_keys, lines 138-147, in the coroutine tk: the expired ids are     *)
(* listed and deleted after the await, with no await in between.           *)
RotateApply(tk, c, t) == RotateEvict(c, t)

----------------------------------------------------------------------------
(* Rows of the tenants table as the installation paths write them:         *)
(* web/main.py puts its ciphertext in access_token, web/auth.py puts the   *)
(* blob and the key id in encrypted_bot_token and encryption_key_id.       *)

NoTenantRow ==
    [present |-> FALSE, access_token |-> NoBlob,
     encrypted_bot_token |-> NoBlob, encryption_key_id |-> NoKey]

(* Fernet.generate_key(), web/main.py line 74: a fresh key, no KeyStore id. *)
FernetKeys == {-1}

(* web/main.py lines 75-81: Fernet ciphertext of the token, base64. *)
FernetEncrypt(key, token) == B64Encode(<<[fk |-> key, p |-> token]>>)

----------------------------------------------------------------------------
(* Errors, results, audit records, coroutine state. *)

Err(kind, detail, key_id) == [kind |-> kind, detail |-> detail, key |-> key_id]

NoErr == Err("none", "", NoKey)

Result(ok, tok, blob, kid, n, err) ==
    [ok |-> ok, tok |-> tok, blob |-> blob, kid |-> kid, n |-> n, err |-> err]

NoRes == Result(FALSE, NoneTok, NoBlob, NoKey, 0, Err("pending", "", NoKey))

Raise(err) == Result(FALSE, NoneTok, NoBlob, NoKey, 0, err)

AuditRecord(tenant_id, operation, success, error_message, key_id) ==
    [tenant_id |-> tenant_id, operation |-> operation, success |-> success,
     error_message |-> error_message, key_id |-> key_id]

(* A row of token_audit_log, followed by its operation and success flag    *)
(* (the whole record is the argument of log_operation).                    *)
SinkRow(rec) == [operation |-> rec.operation, success |-> rec.success]

IdleTask ==
    [op |-> "none", proc |-> "web", pc |-> "idle",
     token |-> NoneTok, tenant |-> "", blob |-> NoBlob, kid |-> NoKey,
     mat |-> 0, sexp |-> 0, key |-> 0, netfail |-> FALSE,
     crypto |-> "none", out |-> NoRes, res |-> NoRes,
     logs |-> <<>>, pend |-> <<>>, auditFail |-> FALSE,
     rt |-> FALSE, rtTok |-> NoneTok, rtTenant |-> "", revoked |-> FALSE,
     from |-> "none", meta |-> NoKey,
     reqs |-> [get |-> 0, post |-> 0, rpc |-> 0, audit |-> 0],
     snap |-> {}, acks |-> <<>>]

(* A coroutine slot is free when no call runs in it; a finished call stays *)
(* in view of its caller until the caller makes its next call or moves on. *)
Free(t) == task[t].pc \in {"idle", "done"}

Quiet == \A t \in AllTasks : Free(t)

Idle == \A t \in AllTasks : task[t].pc = "idle"

NoneDone == \A t \in AllTasks : task[t].pc # "done"

(* A coroutine returns or raises: its outcome becomes visible to the caller. *)
Return(tk) == [tk EXCEPT !.pc = "done", !.res = tk.out, !.pend = <<>>,
                         !.mat = 0, !.sexp = 0]

(* log_operation's return value, lines 286-297 and 314-322: True without  *)
(* a sink client (the record goes to the process log), else whether the    *)
(* sink answered 201.  acks keeps the values returned within a call.       *)
LogOperation(m, http_ok) == IF m = "client" THEN http_ok ELSE TRUE

(* log_operation, lines 286-312, for the calls in recs, in order.  Without *)
(* a client each is written to the process log and the coroutine goes on;  *)
(* with one the coroutine awaits the POST of the first.  meta keeps the    *)
(* key id in the metadata of the call's latest record.                     *)
IssueLogs(tk, m, recs) ==
    IF recs = <<>> THEN Return(tk)
    ELSE IF m = "client"
    THEN [tk EXCEPT !.pc = "audit", !.pend = recs,
                    !.logs = Append(tk.logs, recs[1].success),
                    !.meta = recs[1].key_id]
    ELSE Return([tk EXCEPT
            !.logs = tk.logs \o [i \in 1..Len(recs) |-> recs[i].success],
            !.acks = tk.acks \o [i \in 1..Len(recs) |-> LogOperation(m, FALSE)],
            !.meta = recs[Len(recs)].key_id])

(* encrypt_slack_token / decrypt_slack_token after the cipher call: the    *)
(* success record (lines 362-367, 393-398) or the except clause's failure  *)
(* record (lines 373-378, 404-409).                                        *)
(* Mutant: the success record's metadata carries no key id. *)
SuccessRecordNoKey(tk, key_id) ==
    AuditRecord(tk.tenant, IF tk.op = "enc" THEN "token_stored" ELSE "token_retrieved",
                TRUE, NoErr, NoKey)

SuccessRecord(tk, key_id) ==
    AuditRecord(tk.tenant, IF tk.op = "enc" THEN "token_stored" ELSE "token_retrieved",
                TRUE, NoErr, key_id)

(* Mutant: the except clause's record claims success. *)
FailureRecordAsSuccess(tk, err) ==
    AuditRecord(tk.tenant, IF tk.op = "enc" THEN "token_stored" ELSE "token_retrieved",
                TRUE, err, IF tk.op = "dec" THEN tk.kid ELSE NoKey)

FailureRecord(tk, err) ==
    AuditRecord(tk.tenant, IF tk.op = "enc" THEN "token_stored" ELSE "token_retrieved",
                FALSE, err, IF tk.op = "dec" THEN tk.kid ELSE NoKey)

(* Mutant: the result is returned without the success record. *)
SucceedUnlogged(tk, m, result) ==
    Return([tk EXCEPT !.crypto = "ok", !.out = result])

Succeed(tk, m, result) ==
    IssueLogs([tk EXCEPT !.crypto = "ok", !.out = result], m,
              <<SuccessRecord(tk, result.kid)>>)

(* Mutant: the except clause logs the failure and returns instead of       *)
(* re-raising.                                                             *)
FailSwallowed(tk, m, err) ==
    IssueLogs([tk EXCEPT !.crypto = "fail",
                         !.out = Result(TRUE, NoneTok, NoBlob, tk.kid, 0, err)], m,
              <<FailureRecord(tk, err)>>)

(* Mutant: a failed KeyStore read is tried once more. *)
FailRetrying(tk, m, err) ==
    IF tk.pc = "get" /\ tk.netfail /\ tk.reqs.get < 2
    THEN tk
    ELSE IssueLogs([tk EXCEPT !.crypto = "fail", !.out = Raise(err)], m,
                   <<FailureRecord(tk, err)>>)

Fail(tk, m, err) ==
    IssueLogs([tk EXCEPT !.crypto = "fail", !.out = Raise(err)], m,
              <<FailureRecord(tk, err)>>)

EncryptFailed(detail, key_id) == Err("Token encryption failed", detail, key_id)
DecryptFailed(detail, key_id) == Err("Token decryption failed", detail, key_id)

----------------------------------------------------------------------------
(* The cipher calls, from the point where the key id is known. *)

(* Mutant: the error of a failed tag check tells which input was wrong. *)
DecryptedTelling(tk0, m, key) ==
    LET tk == [tk0 EXCEPT !.key = key]
        d == DecryptBlob(key, tk.blob, tk.tenant)
        tag == B64Decode(tk.blob)[NonceLen + 2]
    IN  IF d.ok
        THEN Succeed(tk, m, Result(TRUE, d.p, NoBlob, tk.kid, 0, NoErr))
        ELSE Fail(tk, m, DecryptFailed(IF tag.k # key THEN "WrongKey"
                                       ELSE IF tag.a # Aad(tk.tenant) THEN "WrongTenant"
                                       ELSE "InvalidTag", NoKey))

(* decrypt_token, lines 226-245, with the key material in hand. *)
Decrypted(tk0, m, key) ==
    LET tk == [tk0 EXCEPT !.key = key]
        d == DecryptBlob(key, tk.blob, tk.tenant)
    IN  IF d.ok
        THEN Succeed(tk, m, Result(TRUE, d.p, NoBlob, tk.kid, 0, NoErr))
        ELSE Fail(tk, m, DecryptFailed("InvalidTag", NoKey))

(* encrypt_token, lines 189-213, with the key material in hand. *)
Encrypted(tk, m, key, nonce) ==
    LET enc == Utf8Encode(tk.token) IN
    IF enc.ok
    THEN Succeed([tk EXCEPT !.key = key], m, Result(TRUE, NoneTok,
                          EncryptBlob(key, nonce, tk.token, tk.tenant),
                          tk.kid, 0, NoErr))
    ELSE Fail([tk EXCEPT !.key = key], m, EncryptFailed(enc.quoted, NoKey))

(* encrypt_token, lines 184-187: get_key for the active key id. *)
EncryptWithKey(tk, m, c, key_id, nonce) ==
    LET g == GetKeyCached(c, key_id, now)
        tk1 == [tk EXCEPT !.kid = key_id]
    IN  [cache |-> g.cache,
         task |->
            IF g.kind = "hit" THEN Encrypted(tk1, m, g.key, nonce)
            ELSE IF g.kind = "typeerror"
            THEN Fail(tk1, m, EncryptFailed("TypeError", NoKey))
            ELSE IF m = "client" THEN [tk1 EXCEPT !.pc = "get"]
            ELSE Fail(tk1, m, EncryptFailed("KeyUnavailable", key_id))]

(* Mutant: a reveal that misses the cache creates the key. *)
DecryptWithKeyGenerates(tk, m, c) ==
    LET g == GetKeyCached(c, tk.kid, now) IN
    [cache |-> g.cache,
     task |->
        IF g.kind = "hit" THEN Decrypted(tk, m, g.key)
        ELSE [tk EXCEPT !.pc = "post", !.mat = tk.kid, !.sexp = now + KeyTTLDays]]

(* decrypt_token, lines 221-224: get_key for the blob's key id. *)
DecryptWithKey(tk, m, c) ==
    LET g == GetKeyCached(c, tk.kid, now) IN
    [cache |-> g.cache,
     task |->
        IF g.kind = "hit" THEN Decrypted(tk, m, g.key)
        ELSE IF g.kind = "typeerror"
        THEN Fail(tk, m, DecryptFailed("TypeError", NoKey))
        ELSE IF m = "client" THEN [tk EXCEPT !.pc = "get"]
        ELSE Fail(tk, m, DecryptFailed("KeyUnavailable", tk.kid))]

(* Mutant: the cache entry of a new key lives twice as long as its         *)
(* KeyStore record.                                                        *)
GeneratedLongLived(tk, m, c, nonce) ==
    LET c1 == CachePut(c, Entry(tk.kid, tk.mat, now, now + 2 * KeyTTLDays, FALSE)) IN
    IF tk.op = "gen"
    THEN [cache |-> c1,
          task |-> Return([tk EXCEPT
                     !.out = Result(TRUE, NoneTok, NoBlob, tk.kid, 0, NoErr)])]
    ELSE EncryptWithKey(tk, m, c1, tk.kid, nonce)

(* generate_key, lines 44-52, after _store_key: the key is cached and the  *)
(* caller goes on (generate_key's own caller, or encrypt_token).           *)
Generated(tk, m, c, nonce) ==
    LET c1 == CachePut(c, Entry(tk.kid, tk.mat, now, now + KeyTTLDays, FALSE)) IN
    IF tk.op = "gen"
    THEN [cache |-> c1,
          task |-> Return([tk EXCEPT
                     !.out = Result(TRUE, NoneTok, NoBlob, tk.kid, 0, NoErr)])]
    ELSE EncryptWithKey(tk, m, c1, tk.kid, nonce)

(* generate_key, lines 34-42: the id, the material, and _store_key up to   *)
(* its POST (without a client _store_key returns at once).                 *)
GenerateKey(tk, m, c, key_id, nonce) ==
    LET tk1 == [tk EXCEPT !.kid = IF key_id = NoKey THEN nextMat ELSE key_id,
                          !.mat = nextMat,
                          !.sexp = now + KeyTTLDays]
    IN  IF m = "client"
        THEN [cache |-> c, task |-> [tk1 EXCEPT !.pc = "post"]]
        ELSE Generated(tk1, m, c, nonce)

(* Mutant: the format gate lets every secret through. *)
FormatGateOpen(token) == TRUE

(* encrypt_slack_token, line 349: the format gate in front of the cipher. *)
FormatGate(token) == ValidateTokenFormat(token)

NotInitialized == Err("Encryption infrastructure not initialized", "", NoKey)

(* Mutant: the call made before initialisation leaves a failure record. *)
RaiseUninitializedLogged(tk) ==
    [tk EXCEPT !.pc = "done", !.out = Raise(NotInitialized),
               !.res = Raise(NotInitialized), !.logs = <<FALSE>>]

(* encrypt_slack_token lines 344-345, decrypt_slack_token lines 385-386:   *)
(* raise before the try block, before any log_operation.                   *)
RaiseUninitialized(tk) == Return([tk EXCEPT !.out = Raise(NotInitialized)])

NewTask(op, p) == [IdleTask EXCEPT !.op = op, !.proc = p]

(* The AuditSink accepts a record while the log has room. *)
AuditRoom(room) == Len(audit) < room

(* Mutant: the AuditSink keeps one row per operation; a new record of an   *)
(* operation replaces the row it has for it.                               *)
SinkUpsert(log, rec) ==
    IF \E i \in 1..Len(log) : log[i].operation = rec.operation
    THEN [i \in 1..Len(log) |->
             IF log[i].operation = rec.operation THEN SinkRow(rec) ELSE log[i]]
    ELSE Append(log, SinkRow(rec))

(* log_operation, lines 300-312: POST token_audit_log inserts one row.     *)
SinkInsert(log, rec) == Append(log, SinkRow(rec))

JustProtected(tk) == tk.pc = "done" /\ tk.op = "enc" /\ tk.res.ok

----------------------------------------------------------------------------
(* Actions *)

(* Mutant: a failed audit write raises into the caller. *)
LoggedRaises(tk, http_ok) ==
    IF http_ok THEN tk
    ELSE [tk EXCEPT !.auditFail = TRUE,
                    !.out = Raise(Err("Audit write failed", "", NoKey))]

(* log_operation, lines 314-322: returns True on 201; any other answer or  *)
(* an exception is logged locally and gives False, which the callers do    *)
(* not look at.                                                            *)
Logged(tk, http_ok) ==
    [tk EXCEPT !.auditFail = tk.auditFail \/ ~http_ok,
               !.acks = Append(tk.acks, LogOperation("client", http_ok))]

(* initialize_encryption, lines 329-337: new KeyManager (empty cache),     *)
(* TokenEncryption and AuditLogger, with or without a store client; a      *)
(* process is deployed one way or the other and keeps to it.               *)
Initialize(p, with_client) ==
    /\ Idle
    /\ mode[p] # "uninit" => with_client = (mode[p] = "client")
    /\ mode' = [mode EXCEPT ![p] = IF with_client THEN "client" ELSE "noclient"]
    /\ cache' = [cache EXCEPT ![p] = <<>>]
    /\ UNCHANGED <<now, store, task, audit, nextMat, tenants>>

(* encrypt_slack_token, lines 339-379, up to its first await; gens bounds   *)
(* the number of keys generated.                                           *)
EncBegin(t, p, token, tenant_id, nonce, gens) ==
    LET tk == [NewTask("enc", p) EXCEPT !.token = token, !.tenant = tenant_id]
        m == mode[p]
        valid == FormatGate(token)
        scan == ActiveScan(cache[p], 1, now)
        invalid_recs ==
            << AuditRecord(tenant_id, "token_stored", FALSE,
                           Err("Invalid token format", "", NoKey), NoKey),
               FailureRecord(tk, Err("Invalid Slack token format", "", NoKey)) >>
        step ==
            IF m = "uninit"
            THEN [cache |-> cache[p], task |-> RaiseUninitialized(tk)]
            ELSE IF ~valid
            THEN [cache |-> cache[p],
                  task |-> IssueLogs([tk EXCEPT !.out =
                               Raise(Err("Invalid Slack token format", "", NoKey))],
                               m, invalid_recs)]
            ELSE IF scan.kind = "typeerror"
            THEN [cache |-> cache[p],
                  task |-> Fail(tk, m, EncryptFailed("TypeError", NoKey))]
            ELSE IF scan.kind = "found"
            THEN EncryptWithKey(tk, m, cache[p], scan.id, nonce)
            ELSE GenerateKey(tk, m, cache[p], NoKey, nonce)
        generates == m # "uninit" /\ valid /\ scan.kind = "none"
    IN  /\ Free(t)
        /\ generates => nextMat <= gens
        /\ task' = [task EXCEPT ![t] = step.task]
        /\ cache' = [cache EXCEPT ![p] = step.cache]
        /\ nextMat' = IF generates THEN nextMat + 1 ELSE nextMat
        /\ UNCHANGED <<now, store, mode, audit, tenants>>

(* A call of encrypt_slack_token made while no other call is running. *)
EncStart(t, p, token, tenant_id, nonce) ==
    /\ Quiet
    /\ EncBegin(t, p, token, tenant_id, nonce, MaxGen)

(* decrypt_slack_token, lines 381-410, up to its first await. *)
DecBegin(t, p, blob, key_id, tenant_id) ==
    LET prev == task[t]
        given == /\ JustProtected(prev)
                 /\ prev.res.blob = blob /\ prev.res.kid = key_id
        rt == given /\ prev.proc = p
        tk == [NewTask("dec", p) EXCEPT
                 !.blob = blob, !.kid = key_id, !.tenant = tenant_id,
                 !.rt = rt,
                 !.from = IF given THEN prev.proc ELSE "none",
                 !.rtTok = IF given THEN prev.token ELSE NoneTok,
                 !.rtTenant = IF given THEN prev.tenant ELSE "",
                 !.revoked = store[key_id].status = "revoked"]
        m == mode[p]
        step ==
            IF m = "uninit"
            THEN [cache |-> cache[p], task |-> RaiseUninitialized(tk)]
            ELSE DecryptWithKey(tk, m, cache[p])
    IN  /\ Free(t)
        /\ task' = [task EXCEPT ![t] = step.task]
        /\ cache' = [cache EXCEPT ![p] = step.cache]
        /\ UNCHANGED <<now, store, mode, audit, nextMat, tenants>>

(* A call of decrypt_slack_token made while no other call is running. *)
DecStart(t, p, blob, key_id, tenant_id) ==
    /\ Quiet
    /\ DecBegin(t, p, blob, key_id, tenant_id)

(* KeyManager.generate_key called directly, with or without an id; gens    *)
(* bounds the number of keys generated.                                    *)
GenCall(t, p, key_id, nonce, gens) ==
    LET step == GenerateKey(NewTask("gen", p), mode[p], cache[p], key_id, nonce) IN
    /\ Free(t)
    /\ mode[p] # "uninit"
    /\ nextMat <= gens
    /\ task' = [task EXCEPT ![t] = step.task]
    /\ cache' = [cache EXCEPT ![p] = step.cache]
    /\ nextMat' = nextMat + 1
    /\ UNCHANGED <<now, store, mode, audit, tenants>>

(* A call of generate_key made while no other call is running. *)
GenBegin(t, p, key_id, nonce, gens) ==
    /\ Quiet
    /\ GenCall(t, p, key_id, nonce, gens)

GenStart(t, p, key_id, nonce) == GenBegin(t, p, key_id, nonce, MaxGen)

(* _store_key, lines 116-125: the KeyStore's answer to the POST, then the  *)
(* rest of generate_key.  The result of _store_key is not looked at.       *)
PostResp(t, http_ok, nonce) ==
    LET tk == task[t]
        p == tk.proc
        step == Generated([tk EXCEPT !.netfail = ~http_ok, !.reqs.post = @ + 1],
                          mode[p], cache[p], nonce)
    IN  /\ tk.pc = "post"
        /\ store' = StoreInsert(store, tk.kid, tk.mat, tk.sexp, now, http_ok)
        /\ task' = [task EXCEPT ![t] = step.task]
        /\ cache' = [cache EXCEPT ![p] = step.cache]
        /\ UNCHANGED <<now, mode, audit, nextMat, tenants>>

(* get_key, lines 76-90: the KeyStore's answer to the GET, then the rest   *)
(* of the cipher call.                                                     *)
GetResp(t, http_ok, nonce) ==
    LET tk == [task[t] EXCEPT !.netfail = ~http_ok, !.reqs.get = @ + 1]
        p == tk.proc
        m == mode[p]
        f == GetKeyFetched(cache[p], tk.kid, store, http_ok)
        tk1 == IF ~f.found
               THEN Fail(tk, m, IF tk.op = "enc"
                                THEN EncryptFailed("KeyUnavailable", tk.kid)
                                ELSE DecryptFailed("KeyUnavailable", tk.kid))
               ELSE IF tk.op = "enc" THEN Encrypted(tk, m, f.key, nonce)
               ELSE Decrypted(tk, m, f.key)
    IN  /\ tk.pc = "get"
        /\ task' = [task EXCEPT ![t] = tk1]
        /\ cache' = [cache EXCEPT ![p] = f.cache]
        /\ UNCHANGED <<now, store, mode, audit, nextMat, tenants>>

(* log_operation, lines 314-322: the AuditSink's answer to the POST; a     *)
(* failure is logged locally and log_operation returns False.  Then the    *)
(* next log_operation of the call, or its return.  room bounds the number  *)
(* of rows of the log.                                                     *)
AuditAnswer(t, http_ok, room) ==
    LET tk == [task[t] EXCEPT !.reqs.audit = @ + 1]
        tk1 == IssueLogs(Logged(tk, http_ok), mode[tk.proc], Tail(tk.pend))
    IN  /\ tk.pc = "audit"
        /\ http_ok => AuditRoom(room)
        /\ audit' = IF http_ok THEN SinkInsert(audit, Head(tk.pend)) ELSE audit
        /\ task' = [task EXCEPT ![t] = tk1]
        /\ UNCHANGED <<now, store, cache, mode, nextMat, tenants>>

AuditResp(t, http_ok) == AuditAnswer(t, http_ok, MaxAudit)

(* rotate_keys, lines 127-136, up to the rotation request.  snap notes the *)
(* entries that are expired when the call begins.                          *)
RotBegin(t, p) ==
    LET tk == [NewTask("rot", p) EXCEPT !.snap = ExpiredKeys(cache[p], now)] IN
    /\ Free(t)
    /\ mode[p] # "uninit"
    /\ task' = [task EXCEPT ![t] =
                  IF mode[p] = "client" THEN [tk EXCEPT !.pc = "rpc"]
                  ELSE Return([tk EXCEPT !.out =
                          Raise(Err("Supabase client not available", "", NoKey))])]
    /\ UNCHANGED <<now, store, cache, mode, audit, nextMat, tenants>>

(* A call of rotate_keys made while no other call is running. *)
RotStart(t, p) ==
    /\ Quiet
    /\ RotBegin(t, p)

(* rotate_keys, lines 138-157: the answer to the rotation request. *)
RotResp(t, http_ok) ==
    LET tk == [task[t] EXCEPT !.netfail = ~http_ok, !.reqs.rpc = @ + 1]
        p == tk.proc
        ev == RotateApply(tk, cache[p], now)
    IN  /\ tk.pc = "rpc"
        /\ store' = IF http_ok THEN RotateRpc(store, now) ELSE store
        /\ cache' = [cache EXCEPT ![p] = IF http_ok THEN ev.cache ELSE cache[p]]
        /\ task' = [task EXCEPT ![t] = Return([tk EXCEPT !.out =
                      IF ~http_ok THEN Raise(Err("Key rotation failed", "", NoKey))
                      ELSE IF ev.kind = "typeerror"
                      THEN Raise(Err("TypeError", "", NoKey))
                      ELSE IF ev.kind = "keyerror"
                      THEN Raise(Err("KeyError", "", NoKey))
                      ELSE Result(TRUE, NoneTok, NoBlob, NoKey, ev.n, NoErr)])]
        /\ UNCHANGED <<now, mode, audit, nextMat, tenants>>

(* Time passes between calls. *)
Tick ==
    /\ Idle
    /\ now < MaxTicks * TickDays
    /\ now' = now + TickDays
    /\ UNCHANGED <<store, cache, mode, task, audit, nextMat, tenants>>

(* The caller of a finished call moves on. *)
Forget(t) ==
    /\ task[t].pc = "done"
    /\ task' = [task EXCEPT ![t] = IdleTask]
    /\ UNCHANGED <<now, store, cache, mode, audit, nextMat, tenants>>

(* An operator revokes a key in the KeyStore. *)
Revoke(k) ==
    /\ NoneDone
    /\ store[k].present
    /\ store[k].status # "revoked"
    /\ store' = [store EXCEPT ![k].status = "revoked"]
    /\ UNCHANGED <<now, cache, mode, task, audit, nextMat, tenants>>

----------------------------------------------------------------------------

(* What the caller of slot t can pass to decrypt_slack_token: a stored     *)
(* blob and key id (api/main.py reads both from one tenants row), or what  *)
(* its protect call has just returned.                                     *)
Held(t) ==
    Stored(1..(nextMat - 1))
      \cup (IF JustProtected(task[t])
            THEN {<<task[t].res.blob, task[t].res.kid>>} ELSE {})

Init ==
    /\ now = 0
    /\ store = [k \in KeyIds |-> NoRow]
    /\ cache = [p \in AllProcs |-> <<>>]
    /\ mode = [p \in AllProcs |-> "uninit"]
    /\ task = [t \in AllTasks |-> IdleTask]
    /\ audit = <<>>
    /\ nextMat = 1
    /\ tenants = [ten \in Tenants |-> NoTenantRow]

Next ==
    \/ \E p \in Procs, with_client \in BOOLEAN : Initialize(p, with_client)
    \/ \E t \in Tasks, p \in Procs, token \in Tokens, tenant_id \in Tenants, nonce \in Nonces :
          EncStart(t, p, token, tenant_id, nonce)
    \/ \E t \in Tasks, p \in Procs, tenant_id \in Tenants :
          \E h \in Held(t) : DecStart(t, p, h[1], h[2], tenant_id)
    \/ \E t \in Tasks, p \in Procs, key_id \in {NoKey}, nonce \in Nonces :
          GenStart(t, p, key_id, nonce)
    \/ \E t \in Tasks, http_ok \in BOOLEAN, nonce \in Nonces : PostResp(t, http_ok, nonce)
    \/ \E t \in Tasks, http_ok \in BOOLEAN, nonce \in Nonces : GetResp(t, http_ok, nonce)
    \/ \E t \in Tasks, http_ok \in BOOLEAN : AuditResp(t, http_ok)
    \/ \E t \in Tasks, p \in Procs : RotStart(t, p)
    \/ \E t \in Tasks, http_ok \in BOOLEAN : RotResp(t, http_ok)
    \/ Tick
    \/ \E t \in Tasks : Forget(t)
    \/ \E k \in KeyIds : Revoke(k)

Spec == Init /\ [][Next]_vars

----------------------------------------------------------------------------
(* Reveals of tampered blobs.  A stored blob (base64 of nonce, ciphertext  *)
(* and tag, decrypt_token lines 227-232) reaches decrypt_slack_token with  *)
(* one bit flipped in one of its three regions.                            *)

FlipByte(b) == IF b % 2 = 0 THEN b + 1 ELSE b - 1

FlipChar(ch) == IF ch = "c" THEN "a" ELSE "c"

FlipNonce(blob) ==
    LET d == B64Decode(blob) IN B64Encode([d EXCEPT ![1] = FlipByte(@)])

(* Counter mode: a bit flipped in the ciphertext is a bit flipped in the   *)
(* plaintext it decrypts to.                                               *)
FlipCiphertext(blob) ==
    LET d == B64Decode(blob)
        p == d[NonceLen + 1].p
    IN  B64Encode([d EXCEPT ![NonceLen + 1].p =
                      [p EXCEPT !.chars[Len(p.chars)] = FlipChar(@)]])

FlipTag(blob) ==
    LET d == B64Decode(blob) IN B64Encode([d EXCEPT ![NonceLen + 2].x = 1 - @])

Tampered(blob) == {FlipNonce(blob), FlipCiphertext(blob), FlipTag(blob)}

DecTampered(t, p, tenant_id) ==
    \E h \in Held(t) : \E blob \in Tampered(h[1]) :
        DecStart(t, p, blob, h[2], tenant_id)

NextTamper ==
    \/ \E p \in Procs, with_client \in BOOLEAN : Initialize(p, with_client)
    \/ \E t \in Tasks, p \in Procs, token \in Tokens, tenant_id \in Tenants, nonce \in Nonces :
          EncStart(t, p, token, tenant_id, nonce)
    \/ \E t \in Tasks, p \in Procs, tenant_id \in Tenants : DecTampered(t, p, tenant_id)
    \/ \E t \in Tasks, http_ok \in BOOLEAN, nonce \in Nonces : PostResp(t, http_ok, nonce)
    \/ \E t \in Tasks, http_ok \in BOOLEAN, nonce \in Nonces : GetResp(t, http_ok, nonce)
    \/ \E t \in Tasks, http_ok \in BOOLEAN : AuditResp(t, http_ok)
    \/ \E t \in Tasks : Forget(t)

SpecTamper == Init /\ [][NextTamper]_vars

----------------------------------------------------------------------------
(* Two processes (web/auth.py protects, api/main.py reveals), each with    *)
(* its own KeyManager and key cache, over one KeyStore; their calls follow *)
(* one another.                                                            *)

NextCross ==
    \/ \E p \in AllProcs, with_client \in BOOLEAN : Initialize(p, with_client)
    \/ \E t \in Tasks, p \in AllProcs, token \in Tokens, tenant_id \in Tenants, nonce \in Nonces :
          EncStart(t, p, token, tenant_id, nonce)
    \/ \E t \in Tasks, p \in AllProcs, tenant_id \in Tenants :
          \E h \in Held(t) : DecStart(t, p, h[1], h[2], tenant_id)
    \/ \E t \in Tasks, http_ok \in BOOLEAN, nonce \in Nonces : PostResp(t, http_ok, nonce)
    \/ \E t \in Tasks, http_ok \in BOOLEAN, nonce \in Nonces : GetResp(t, http_ok, nonce)
    \/ \E t \in Tasks, http_ok \in BOOLEAN : AuditResp(t, http_ok)
    \/ \E t \in Tasks : Forget(t)

SpecCross == Init /\ [][NextCross]_vars

----------------------------------------------------------------------------
(* One process in which generate_key is called more than once (as          *)
(* init_db.py line 235 calls it), a day or more apart.                     *)

TickDay ==
    /\ Idle
    /\ now < MaxTicks
    /\ now' = now + 1
    /\ UNCHANGED <<store, cache, mode, task, audit, nextMat, tenants>>

GenMore(t, p, nonce) == GenBegin(t, p, NoKey, nonce, MaxGen + 1)

NextKeys ==
    \/ \E p \in Procs, with_client \in BOOLEAN : Initialize(p, with_client)
    \/ \E t \in Tasks, p \in Procs, nonce \in Nonces : GenMore(t, p, nonce)
    \/ \E t \in Tasks, p \in Procs, token \in Tokens, tenant_id \in Tenants, nonce \in Nonces :
          EncStart(t, p, token, tenant_id, nonce)
    \/ \E t \in Tasks, http_ok \in BOOLEAN, nonce \in Nonces : PostResp(t, http_ok, nonce)
    \/ \E t \in Tasks, http_ok \in BOOLEAN : AuditResp(t, http_ok)
    \/ \E t \in Tasks : Forget(t)
    \/ TickDay

SpecKeys == Init /\ [][NextKeys]_vars

----------------------------------------------------------------------------
(* One process whose protect calls overlap: two coroutines of one event    *)
(* loop, switching at the network awaits.                                  *)

EncOverlap(t, p, token, tenant_id, nonce) ==
    EncBegin(t, p, token, tenant_id, nonce, MaxGen + 1)

NextConc ==
    \/ \E p \in Procs, with_client \in BOOLEAN : Initialize(p, with_client)
    \/ \E t \in AllTasks, p \in Procs, nonce \in Nonces :
          EncOverlap(t, p, TokA, "team-A", nonce)
    \/ \E t \in AllTasks, http_ok \in BOOLEAN, nonce \in Nonces : PostResp(t, http_ok, nonce)
    \/ \E t \in AllTasks, http_ok \in BOOLEAN : AuditResp(t, http_ok)
    \/ \E t \in AllTasks : Forget(t)

SpecConc == Init /\ [][NextConc]_vars

----------------------------------------------------------------------------
(* generate_key called with an explicit key id, more than once for the     *)
(* same id, and protect / reveal calls around it.                          *)

GenExplicit(t, p, nonce) == GenBegin(t, p, ExplicitId, nonce, MaxGen + 1)

(* A reveal of what the caller's protect call has just returned. *)
DecReturned(t, p, tenant_id) ==
    /\ JustProtected(task[t])
    /\ DecStart(t, p, task[t].res.blob, task[t].res.kid, tenant_id)

NextExplicit ==
    \/ \E p \in Procs, with_client \in BOOLEAN : Initialize(p, with_client)
    \/ \E t \in Tasks, p \in Procs, nonce \in Nonces : GenExplicit(t, p, nonce)
    \/ \E t \in Tasks, p \in Procs, token \in Tokens, tenant_id \in Tenants, nonce \in Nonces :
          EncStart(t, p, token, tenant_id, nonce)
    \/ \E t \in Tasks, p \in Procs, tenant_id \in Tenants : DecReturned(t, p, tenant_id)
    \/ \E t \in Tasks, http_ok \in BOOLEAN, nonce \in Nonces : PostResp(t, http_ok, nonce)
    \/ \E t \in Tasks, http_ok \in BOOLEAN : AuditResp(t, http_ok)
    \/ \E t \in Tasks : Forget(t)

SpecExplicit == Init /\ [][NextExplicit]_vars

----------------------------------------------------------------------------
(* Reveals whose tag check can fail for each of its reasons: a stored blob *)
(* or the same with a bit of its ciphertext flipped, passed with the id of *)
(* any key generated so far and with either tenant id.                     *)

DecAny(t, p, tenant_id) ==
    \E h \in Stored(1..(nextMat - 1)) :
        \E blob \in {h[1], FlipCiphertext(h[1])}, key_id \in 1..(nextMat - 1) :
            DecStart(t, p, blob, key_id, tenant_id)

NextAuth ==
    \/ \E p \in Procs, with_client \in BOOLEAN : Initialize(p, with_client)
    \/ \E t \in Tasks, p \in Procs, nonce \in Nonces : GenMore(t, p, nonce)
    \/ \E t \in Tasks, p \in Procs, tenant_id \in Tenants : DecAny(t, p, tenant_id)
    \/ \E t \in Tasks, http_ok \in BOOLEAN, nonce \in Nonces : PostResp(t, http_ok, nonce)
    \/ \E t \in Tasks, http_ok \in BOOLEAN, nonce \in Nonces : GetResp(t, http_ok, nonce)
    \/ \E t \in Tasks, http_ok \in BOOLEAN : AuditResp(t, http_ok)
    \/ \E t \in Tasks : Forget(t)

SpecAuth == Init /\ [][NextAuth]_vars

----------------------------------------------------------------------------
(* The operations of the subsystem over an audit log that takes one more   *)
(* row, at one point in time.                                              *)

AuditMore(t, http_ok) == AuditAnswer(t, http_ok, MaxAudit + 1)

NextAudit ==
    \/ \E p \in Procs, with_client \in BOOLEAN : Initialize(p, with_client)
    \/ \E t \in Tasks, p \in Procs, token \in Tokens, tenant_id \in Tenants, nonce \in Nonces :
          EncStart(t, p, token, tenant_id, nonce)
    \/ \E t \in Tasks, p \in Procs, tenant_id \in Tenants :
          \E h \in Held(t) : DecStart(t, p, h[1], h[2], tenant_id)
    \/ \E t \in Tasks, p \in Procs, key_id \in {NoKey}, nonce \in Nonces :
          GenStart(t, p, key_id, nonce)
    \/ \E t \in Tasks, http_ok \in BOOLEAN, nonce \in Nonces : PostResp(t, http_ok, nonce)
    \/ \E t \in Tasks, http_ok \in BOOLEAN, nonce \in Nonces : GetResp(t, http_ok, nonce)
    \/ \E t \in Tasks, http_ok \in BOOLEAN : AuditMore(t, http_ok)
    \/ \E t \in Tasks, p \in Procs : RotStart(t, p)
    \/ \E t \in Tasks, http_ok \in BOOLEAN : RotResp(t, http_ok)
    \/ \E t \in Tasks : Forget(t)

SpecAudit == Init /\ [][NextAudit]_vars

----------------------------------------------------------------------------
(* One process that protects and generates keys over the whole life of a   *)
(* key: the clock reaches the key's expiry and one more key can be made.   *)

EncAgain(t, p, token, tenant_id, nonce) ==
    /\ Quiet
    /\ EncBegin(t, p, token, tenant_id, nonce, MaxGen + 1)

NextExpiry ==
    \/ \E p \in Procs, with_client \in BOOLEAN : Initialize(p, with_client)
    \/ \E t \in Tasks, p \in Procs, tenant_id \in Tenants, nonce \in Nonces :
          EncAgain(t, p, TokA, tenant_id, nonce)
    \/ \E t \in Tasks, p \in Procs, nonce \in Nonces : GenMore(t, p, nonce)
    \/ \E t \in Tasks, http_ok \in BOOLEAN, nonce \in Nonces : PostResp(t, http_ok, nonce)
    \/ \E t \in Tasks, http_ok \in BOOLEAN : AuditResp(t, http_ok)
    \/ Tick
    \/ \E t \in Tasks : Forget(t)

SpecExpiry == Init /\ [][NextExpiry]_vars

----------------------------------------------------------------------------
(* Protect calls whose secret may hold a character that UTF-8 cannot       *)
(* encode.                                                                 *)

EncOdd(t, p, tenant_id, nonce) ==
    \E token \in {TokA, TokSurrogate} : EncStart(t, p, token, tenant_id, nonce)

NextEncode ==
    \/ \E p \in Procs, with_client \in BOOLEAN : Initialize(p, with_client)
    \/ \E t \in Tasks, p \in Procs, tenant_id \in Tenants, nonce \in Nonces :
          EncOdd(t, p, tenant_id, nonce)
    \/ \E t \in Tasks, p \in Procs, tenant_id \in Tenants : DecReturned(t, p, tenant_id)
    \/ \E t \in Tasks, http_ok \in BOOLEAN, nonce \in Nonces : PostResp(t, http_ok, nonce)
    \/ \E t \in Tasks, http_ok \in BOOLEAN : AuditResp(t, http_ok)
    \/ \E t \in Tasks : Forget(t)

SpecEncode == Init /\ [][NextEncode]_vars

----------------------------------------------------------------------------
(* validate_token_format on its own, over values of every length up to    *)
(* one past the minimum: strings with the bot prefix, with the user-token  *)
(* prefix or cut short of a prefix, and the same contents as bytes (not a  *)
(* str).                                                                   *)

XoxpPrefix == <<"x", "o", "x", "p", "-">>

FormatInputs ==
    { [str |-> is_str, chars |-> SubSeq(prefix \o Fill(MinTokenLen, ch), 1, n)] :
        is_str \in BOOLEAN, prefix \in {XoxbPrefix, XoxpPrefix},
        ch \in {"a", "-"}, n \in 0..(MinTokenLen + 1) }
      \cup {NoneTok}

Validate(t, p, token) ==
    LET tk == [NewTask("val", p) EXCEPT !.token = token] IN
    /\ Free(t) /\ Quiet
    /\ task' = [task EXCEPT ![t] = Return([tk EXCEPT !.out =
                  Result(ValidateTokenFormat(token), NoneTok, NoBlob, NoKey, 0, NoErr)])]
    /\ UNCHANGED <<now, store, cache, mode, audit, nextMat, tenants>>

NextFormat ==
    \/ \E t \in Tasks, p \in Procs, token \in FormatInputs : Validate(t, p, token)
    \/ \E t \in Tasks : Forget(t)

SpecFormat == Init /\ [][NextFormat]_vars

----------------------------------------------------------------------------
(* One KeyManager used by two coroutines of one event loop at a time:      *)
(* get_key (in a reveal), get_active_key_id (in a protect), generate_key   *)
(* and rotate_keys overlap, switching at the network awaits.  The content *)
(* of the audit log has no part in the key cache: the AuditSink is down,   *)
(* every log_operation gets its answer and returns False.                  *)

AuditDown(t) == AuditAnswer(t, FALSE, MaxAudit)

NextRace ==
    \/ \E p \in Procs : Initialize(p, TRUE)
    \/ \E t \in AllTasks, p \in Procs, nonce \in Nonces :
          EncBegin(t, p, TokA, "team-A", nonce, MaxGen)
    \/ \E t \in AllTasks, p \in Procs :
          \E h \in Held(t) : DecBegin(t, p, h[1], h[2], "team-A")
    \/ \E t \in AllTasks, p \in Procs, nonce \in Nonces :
          GenCall(t, p, NoKey, nonce, MaxGen)
    \/ \E t \in AllTasks, p \in Procs : RotBegin(t, p)
    \/ \E t \in AllTasks, http_ok \in BOOLEAN, nonce \in Nonces : PostResp(t, http_ok, nonce)
    \/ \E t \in AllTasks, http_ok \in BOOLEAN, nonce \in Nonces : GetResp(t, http_ok, nonce)
    \/ \E t \in AllTasks : AuditDown(t)
    \/ \E t \in AllTasks, http_ok \in BOOLEAN : RotResp(t, http_ok)
    \/ Tick
    \/ \E t \in AllTasks : Forget(t)

SpecRace == Init /\ [][NextRace]_vars

----------------------------------------------------------------------------
(* A process that calls initialize_encryption again while it runs (each    *)
(* SlackAuthManager() does, web/auth.py line 45): the KeyManager and its   *)
(* cache are replaced.  The caller of the latest protect call still holds  *)
(* what it returned.                                                       *)

Reinitialize(p) ==
    /\ Quiet
    /\ mode[p] # "uninit"
    /\ cache' = [cache EXCEPT ![p] = <<>>]
    /\ UNCHANGED <<now, store, mode, task, audit, nextMat, tenants>>

NextReinit ==
    \/ \E p \in Procs, with_client \in BOOLEAN : Initialize(p, with_client)
    \/ \E p \in Procs : Reinitialize(p)
    \/ \E t \in Tasks, p \in Procs, token \in Tokens, tenant_id \in Tenants, nonce \in Nonces :
          EncStart(t, p, token, tenant_id, nonce)
    \/ \E t \in Tasks, p \in Procs, tenant_id \in Tenants : DecReturned(t, p, tenant_id)
    \/ \E t \in Tasks, http_ok \in BOOLEAN, nonce \in Nonces : PostResp(t, http_ok, nonce)
    \/ \E t \in Tasks, http_ok \in BOOLEAN, nonce \in Nonces : GetResp(t, http_ok, nonce)
    \/ \E t \in Tasks, http_ok \in BOOLEAN : AuditResp(t, http_ok)
    \/ \E t \in Tasks : Forget(t)

SpecReinit == Init /\ [][NextReinit]_vars

----------------------------------------------------------------------------
(* Two processes over one KeyStore of which only the web process ever      *)
(* calls initialize_encryption; the api process makes its calls without.   *)

NextUninit ==
    \/ \E with_client \in BOOLEAN : Initialize("web", with_client)
    \/ \E t \in Tasks, p \in AllProcs, token \in {TokA, TokShort}, tenant_id \in Tenants,
          nonce \in Nonces : EncStart(t, p, token, tenant_id, nonce)
    \/ \E t \in Tasks, p \in AllProcs, tenant_id \in Tenants :
          \E h \in Held(t) : DecStart(t, p, h[1], h[2], tenant_id)
    \/ \E t \in Tasks, http_ok \in BOOLEAN, nonce \in Nonces : PostResp(t, http_ok, nonce)
    \/ \E t \in Tasks, http_ok \in BOOLEAN, nonce \in Nonces : GetResp(t, http_ok, nonce)
    \/ \E t \in Tasks, http_ok \in BOOLEAN : AuditResp(t, http_ok)
    \/ \E t \in Tasks : Forget(t)

SpecUninit == Init /\ [][NextUninit]_vars

----------------------------------------------------------------------------
(* The installation paths of the web application: the OAuth callback of    *)
(* web/main.py (store_installation with its own encrypt_token) and the     *)
(* one of web/auth.py (encrypt_slack_token, then store_installation).      *)

(* web/main.py store_installation, lines 83-163: PATCH the tenant's row,   *)
(* POST a new row if the PATCH is refused.  The key that encrypt_token     *)
(* returns is bound to encryption_key and not used again.                  *)
StoreInstallationMain(team_id, token, key, patch_ok, insert_ok) ==
    LET row == tenants[team_id]
        encrypted_token == FernetEncrypt(key, token)
        updated == IF row.present THEN [row EXCEPT !.access_token = encrypted_token] ELSE row
        inserted == [NoTenantRow EXCEPT !.present = TRUE, !.access_token = encrypted_token]
    IN  /\ Quiet
        /\ tenants' = [tenants EXCEPT ![team_id] =
                          IF patch_ok THEN updated
                          ELSE IF insert_ok /\ ~row.present THEN inserted
                          ELSE row]
        /\ UNCHANGED <<now, store, cache, mode, task, audit, nextMat>>

(* web/auth.py lines 116-131 and 173-216: the blob and key id that         *)
(* encrypt_slack_token has just returned are written to the tenant's row   *)
(* (UPDATE if it exists, INSERT otherwise).                                *)
StoreInstallationAuth(t, db_ok) ==
    LET tk == task[t]
        row == tenants[tk.tenant]
    IN  /\ JustProtected(tk)
        /\ tk.proc = "web"
        /\ tenants' = IF db_ok
                      THEN [tenants EXCEPT ![tk.tenant] =
                              [row EXCEPT !.present = TRUE,
                                          !.encrypted_bot_token = tk.res.blob,
                                          !.encryption_key_id = tk.res.kid]]
                      ELSE tenants
        /\ task' = [task EXCEPT ![t] = IdleTask]
        /\ UNCHANGED <<now, store, cache, mode, audit, nextMat>>

NextInstall ==
    \/ \E p \in Procs, with_client \in BOOLEAN : Initialize(p, with_client)
    \/ \E t \in Tasks, p \in Procs, token \in Tokens, tenant_id \in Tenants, nonce \in Nonces :
          EncStart(t, p, token, tenant_id, nonce)
    \/ \E t \in Tasks, http_ok \in BOOLEAN, nonce \in Nonces : PostResp(t, http_ok, nonce)
    \/ \E t \in Tasks, http_ok \in BOOLEAN : AuditResp(t, http_ok)
    \/ \E t \in Tasks, db_ok \in BOOLEAN : StoreInstallationAuth(t, db_ok)
    \/ \E team_id \in Tenants, token \in {TokA, TokB}, key \in FernetKeys,
          patch_ok \in BOOLEAN, insert_ok \in BOOLEAN :
          StoreInstallationMain(team_id, token, key, patch_ok, insert_ok)
    \/ \E t \in Tasks : Forget(t)

SpecInstall == Init /\ [][NextInstall]_vars

----------------------------------------------------------------------------
(* Properties *)

(* What a blob seals (read off the symbolic tag). *)
Sealed(blob) == B64Decode(blob)[NonceLen + 2]

SealedTenant(blob) == Sealed(blob).a[2]

Audited(tk) == tk.op \in {"enc", "dec"}

(* C1: round trip.  A reveal that directly follows a successful protect in *)
(* the same process, with the blob and key id protect returned and the     *)
(* same tenant id, returns exactly the secret that was protected.          *)
C1_RoundTrip ==
    \A t \in AllTasks :
        LET tk == task[t] IN
        (tk.op = "dec" /\ tk.rt /\ tk.tenant = tk.rtTenant) =>
            /\ ValidateTokenFormat(tk.rtTok)
            /\ tk.out.ok /\ tk.out.tok = tk.rtTok
            /\ tk.pc = "done" => (tk.res.ok /\ tk.res.tok = tk.rtTok)

C1_Witness ==
    \E t \in AllTasks :
        /\ task[t].op = "dec" /\ task[t].rt /\ task[t].pc = "done"
        /\ task[t].tenant = task[t].rtTenant
        /\ task[t].res.tok = TokB

(* C2: tenant binding.  A reveal under a tenant id other than the one the  *)
(* blob was sealed for never yields a plaintext; once the key material is  *)
(* in hand it fails on the tag (InvalidTag), and it does so always when it *)
(* directly follows the protect that made the blob.                        *)
C2_TenantBinding ==
    \A t \in AllTasks :
        LET tk == task[t] IN
        (tk.op = "dec" /\ SealedTenant(tk.blob) # tk.tenant) =>
            /\ ~tk.out.ok /\ ~tk.res.ok
            /\ tk.out.tok = NoneTok /\ tk.res.tok = NoneTok
            /\ tk.key # 0 => tk.out.err = DecryptFailed("InvalidTag", NoKey)
            /\ tk.rt => (tk.key # 0 /\ tk.crypto = "fail")

C2_Witness ==
    \E t \in AllTasks :
        /\ task[t].op = "dec" /\ task[t].rt /\ task[t].pc = "done"
        /\ task[t].rtTenant = "team-A" /\ task[t].tenant = "team-B"
        /\ task[t].res.err = DecryptFailed("InvalidTag", NoKey)

(* C3: key independence.  A reveal with the right tenant id of a blob      *)
(* sealed under a key that rotation has marked expired (not revoked), with *)
(* the KeyStore answering, succeeds.                                       *)
C3_KeyIndependence ==
    \A t \in AllTasks :
        LET tk == task[t] IN
        ( /\ tk.op = "dec" /\ tk.pc = "done"
          /\ SealedTenant(tk.blob) = tk.tenant
          /\ store[tk.kid].present
          /\ store[tk.kid].status = "expired"
          /\ store[tk.kid].key_data = Sealed(tk.blob).k
          /\ mode[tk.proc] = "client" /\ ~tk.netfail )
        => tk.res.ok

(* C4: revocation finality.  A reveal that starts after the key's status   *)
(* in the KeyStore became revoked fails with the key-unavailable error.    *)
C4_RevocationFinality ==
    \A t \in AllTasks :
        LET tk == task[t] IN
        (tk.op = "dec" /\ tk.pc = "done" /\ tk.revoked) =>
            /\ ~tk.res.ok
            /\ tk.res.err = DecryptFailed("KeyUnavailable", tk.kid)

(* C5: no key exists only in memory.  Every key id in a key cache has a    *)
(* row in the KeyStore.                                                    *)
C5_NoKeyOnlyInMemory ==
    \A p \in AllProcs : \A id \in CacheIds(cache[p]) : store[id].present

(* An initialised process: the entry points get past their first check. *)
Initialized(tk) == mode[tk.proc] # "uninit"

(* C6: audit completeness (count).  Every call of encrypt_slack_token or   *)
(* decrypt_slack_token in an initialised process has issued exactly one    *)
(* log_operation call when it returns or raises.                           *)
C6_ExactlyOneAudit ==
    \A t \in AllTasks :
        LET tk == task[t] IN
        (Audited(tk) /\ Initialized(tk) /\ tk.pc = "done") => Len(tk.logs) = 1

(* C7: audit completeness (flag).  Every log_operation call issued by a    *)
(* protect or reveal call carries success = TRUE iff the call returns a    *)
(* value, and FALSE iff it raises.                                         *)
C7_AuditFlag ==
    \A t \in AllTasks :
        LET tk == task[t] IN
        Audited(tk) =>
            \A i \in 1..Len(tk.logs) :
                /\ tk.logs[i] = tk.out.ok
                /\ tk.pc = "done" => tk.logs[i] = tk.res.ok

C7_Witness ==
    \E t \in AllTasks :
        /\ task[t].op = "dec" /\ task[t].pc = "done"
        /\ task[t].crypto = "fail" /\ ~task[t].res.ok
        /\ task[t].logs = <<FALSE>>

(* C8: audit ordering.  Within one protect or reveal call no audit write   *)
(* is issued while the cipher call is still waiting for the KeyStore; an   *)
(* audit write is issued only once the cipher call has completed or failed *)
(* (or was never made: the format gate); nothing of the cipher call        *)
(* changes in the call's steps after the first audit write; and the result *)
(* or error is visible                                                     *)
(* to the caller only after the audit writes were issued and answered.  In *)
(* particular no revealed secret is visible without an audit attempt.      *)
C8_State ==
    \A t \in AllTasks :
        LET tk == task[t] IN
        Audited(tk) =>
            /\ tk.pc \in {"post", "get"} => (tk.logs = <<>> /\ tk.crypto = "none")
            /\ tk.logs # <<>> =>
                  \/ tk.crypto \in {"ok", "fail"}
                  \/ tk.op = "enc" /\ ~ValidateTokenFormat(tk.token)
            /\ tk.pc # "done" => tk.res = NoRes
            /\ (tk.pc = "done" /\ Initialized(tk)) => (tk.logs # <<>> /\ tk.pend = <<>>)
            /\ (tk.op = "dec" /\ tk.res.ok) => tk.logs # <<>>

C8_Step ==
    \A t \in AllTasks :
        (Audited(task[t]) /\ task[t].pc = "audit" /\ task'[t] # task[t]) =>
            /\ task'[t].crypto = task[t].crypto
            /\ task'[t].out = task[t].out
            /\ task'[t].key = task[t].key
            /\ cache' = cache /\ store' = store
            /\ task'[t].pc \in {"audit", "done"}

C8_AuditOrdering == [](C8_State) /\ [][C8_Step]_vars

C8_Witness ==
    \E t \in AllTasks :
        /\ task[t].op = "dec" /\ task[t].pc = "done" /\ task[t].res.ok
        /\ mode[task[t].proc] = "client"
        /\ task[t].logs = <<TRUE>> /\ ~task[t].auditFail

(* C9: an AuditSink write failure never changes the primary outcome.  A    *)
(* call whose audit write failed returns what the cipher produced (the     *)
(* plaintext sealed in the blob, a blob that opens to the secret) when the *)
(* cipher succeeded, and raises the cipher's error when it failed.         *)
C9_AuditFailureKeepsOutcome ==
    \A t \in AllTasks :
        LET tk == task[t]
            opened == DecryptBlob(tk.key, tk.blob, tk.tenant)
            sealed == DecryptBlob(tk.key, tk.res.blob, tk.tenant)
        IN
        (Audited(tk) /\ tk.auditFail /\ tk.pc = "done") =>
            /\ tk.crypto = "ok" =>
                  /\ tk.res.ok /\ tk.res.err = NoErr /\ tk.res.kid = tk.kid
                  /\ tk.op = "dec" => (opened.ok /\ tk.res.tok = opened.p)
                  /\ tk.op = "enc" => (sealed.ok /\ sealed.p = tk.token)
            /\ tk.crypto = "fail" =>
                  /\ ~tk.res.ok
                  /\ tk.res.err.kind = IF tk.op = "enc" THEN "Token encryption failed"
                                       ELSE "Token decryption failed"
            /\ tk.crypto = "none" =>
                  tk.res = Raise(Err("Invalid Slack token format", "", NoKey))

C9_Witness ==
    \E t \in AllTasks :
        /\ task[t].op = "dec" /\ task[t].pc = "done"
        /\ task[t].auditFail /\ task[t].crypto = "ok"
        /\ task[t].res.ok /\ task[t].res.tok = TokA

(* C10: format gate, no side effect.  Every step of a protect call whose   *)
(* secret fails validate_token_format leaves the key caches and the        *)
(* KeyStore unchanged, generates no key, resolves no key id and makes no   *)
(* cipher call.                                                            *)
C10_Step ==
    \A t \in AllTasks :
        ( /\ task'[t] # task[t]
          /\ task'[t].op = "enc"
          /\ ~ValidateTokenFormat(task'[t].token) )
        => /\ cache' = cache /\ store' = store /\ nextMat' = nextMat
           /\ task'[t].crypto = "none"
           /\ task'[t].kid = NoKey /\ task'[t].key = 0 /\ task'[t].mat = 0
           /\ task'[t].pc \in {"audit", "done"}
           /\ ~task'[t].out.ok

C10_FormatGateNoSideEffect == [][C10_Step]_vars

C10_Witness ==
    \E t \in AllTasks :
        /\ task[t].op = "enc" /\ task[t].pc = "done"
        /\ ~ValidateTokenFormat(task[t].token)
        /\ task[t].res = Raise(Err("Invalid Slack token format", "", NoKey))
        /\ cache[task[t].proc] # <<>>

(* C11: format gate, one record.  A protect call in an initialised process *)
(* whose secret fails validate_token_format has issued exactly one         *)
(* log_operation call (token_stored, success false) when it raises the     *)
(* validation error.                                                       *)
C11_FormatGateOneRecord ==
    \A t \in AllTasks :
        LET tk == task[t] IN
        ( /\ tk.op = "enc" /\ tk.pc = "done" /\ Initialized(tk)
          /\ ~ValidateTokenFormat(tk.token) )
        => /\ tk.res = Raise(Err("Invalid Slack token format", "", NoKey))
           /\ tk.logs = <<FALSE>>

(* C12: a KeyStore failure during get_key is not reported as key not       *)
(* found.  A reveal whose GET failed (exception or non-200 answer) does    *)
(* not end with the error of a reveal whose GET answered that no active    *)
(* record exists.                                                          *)
C12_StoreFailureDistinct ==
    \A t \in AllTasks :
        LET tk == task[t] IN
        (tk.op = "dec" /\ tk.pc = "done" /\ tk.netfail) =>
            tk.res.err # DecryptFailed("KeyUnavailable", tk.kid)

(* The blobs protect can return, and their one-bit alterations. *)
GenuineBlobs ==
    { EncryptBlob(m, n, tok, ten) :
        m \in KeyIds, n \in Nonces,
        tok \in { x \in Tokens : ValidateTokenFormat(x) }, ten \in Tenants }

TamperedBlobs == UNION { Tampered(b) : b \in GenuineBlobs }

(* C13: tamper detection.  A reveal of a blob that differs in one bit (in  *)
(* the nonce, the ciphertext or the tag) from a blob protect returns never *)
(* yields a plaintext, and with the key material in hand it fails on the   *)
(* tag (InvalidTag).                                                       *)
C13_TamperDetection ==
    \A t \in AllTasks :
        LET tk == task[t] IN
        (tk.op = "dec" /\ tk.blob \in TamperedBlobs) =>
            /\ ~tk.out.ok /\ ~tk.res.ok
            /\ tk.out.tok = NoneTok /\ tk.res.tok = NoneTok
            /\ tk.key # 0 =>
                  (tk.crypto = "fail" /\ tk.out.err = DecryptFailed("InvalidTag", NoKey))

C13_Witness ==
    \E t \in AllTasks :
        /\ task[t].op = "dec" /\ task[t].pc = "done"
        /\ task[t].blob = FlipCiphertext(EncryptBlob(1, Fill(NonceLen, 0), TokA, "team-A"))
        /\ task[t].tenant = "team-A" /\ task[t].key = 1
        /\ task[t].res = Raise(DecryptFailed("InvalidTag", NoKey))

(* What went wrong inside a finished protect or reveal call, read off its  *)
(* inputs: the secret fails validation, no key material was resolved, or   *)
(* the blob does not open under the resolved key and the tenant id.        *)
FailedInside(tk) ==
    \/ tk.op = "enc" /\ ~ValidateTokenFormat(tk.token)
    \/ tk.key = 0
    \/ tk.op = "dec" /\ ~DecryptBlob(tk.key, tk.blob, tk.tenant).ok

(* C14: no error is swallowed.  A protect or reveal call in which          *)
(* validation, key resolution, encryption or decryption failed raises an   *)
(* error to its caller after a failure record was logged, and returns no   *)
(* token, blob or key id.                                                  *)
C14_NoErrorSwallowed ==
    \A t \in AllTasks :
        LET tk == task[t] IN
        (Audited(tk) /\ tk.pc = "done" /\ Initialized(tk) /\ FailedInside(tk)) =>
            /\ ~tk.res.ok
            /\ tk.res.err.kind \notin {"none", "pending"}
            /\ tk.res.tok = NoneTok /\ tk.res.blob = NoBlob /\ tk.res.kid = NoKey
            /\ tk.logs # <<>> /\ ~tk.logs[Len(tk.logs)]

C14_Witness ==
    \E t \in AllTasks :
        /\ task[t].op = "dec" /\ task[t].pc = "done"
        /\ mode[task[t].proc] = "client"
        /\ task[t].key = 0 /\ task[t].netfail
        /\ task[t].res = Raise(DecryptFailed("KeyUnavailable", task[t].kid))
        /\ task[t].logs = <<FALSE>>

(* C15: cross-process decryptability.  A reveal by one process of the blob *)
(* and key id a successful protect in another process returned, with the   *)
(* same tenant id, both processes configured with the KeyStore and the     *)
(* KeyStore answering the reveal's query, returns the protected secret.    *)
C15_CrossProcess ==
    \A t \in AllTasks :
        LET tk == task[t] IN
        ( /\ tk.op = "dec" /\ tk.pc = "done"
          /\ tk.from \notin {"none", tk.proc}
          /\ tk.tenant = tk.rtTenant
          /\ mode[tk.from] = "client" /\ mode[tk.proc] = "client"
          /\ ~tk.netfail )
        => (tk.res.ok /\ tk.res.tok = tk.rtTok)

(* C16: active key selection.  When the call of get_active_key_id inside a *)
(* protect call finds more than one non-expired key in the cache, the id   *)
(* it returns is that of an entry with the latest created_at among them.   *)
C16_Step ==
    \A t \in AllTasks :
        LET c == cache[task'[t].proc]
            live == { i \in 1..Len(c) : c[i].expires_at > now }
        IN  ( /\ Free(t) /\ task'[t] # task[t]
              /\ task'[t].op = "enc" /\ task'[t].kid # NoKey
              /\ nextMat' = nextMat
              /\ Cardinality(live) > 1 )
            => \A i \in live :
                  c[i].created_at <= CacheGet(c, task'[t].kid).created_at

C16_LatestCreated == [][C16_Step]_vars

(* C17: single active key per process.  While one protect call of a        *)
(* process is inside generate_key (waiting for the KeyStore write), every  *)
(* other protect call of that process that has obtained a key id has       *)
(* obtained the same one.                                                  *)
C17_SingleActiveKey ==
    \A t1, t2 \in AllTasks :
        ( /\ t1 # t2
          /\ task[t1].op = "enc" /\ task[t1].pc = "post"
          /\ task[t2].op = "enc" /\ task[t2].kid # NoKey
          /\ task[t1].proc = task[t2].proc )
        => task[t1].kid = task[t2].kid

(* C18: the call of get_active_key_id inside a protect call returns a      *)
(* cached id only if that entry's expires_at is after now, and a key is    *)
(* generated only when no cache entry has expires_at after now.            *)
C18_Step ==
    \A t \in AllTasks :
        LET c == cache[task'[t].proc] IN
        (Free(t) /\ task'[t] # task[t] /\ task'[t].op = "enc") =>
            /\ (task'[t].kid # NoKey /\ nextMat' = nextMat) =>
                  /\ CacheHas(c, task'[t].kid)
                  /\ CacheGet(c, task'[t].kid).expires_at > now
            /\ nextMat' # nextMat =>
                  \A i \in 1..Len(c) : c[i].expires_at <= now

C19_Step ==
    \A t \in AllTasks :
        (task'[t] # task[t] /\ task'[t].op \in {"dec", "rot"}) =>
            /\ nextMat' = nextMat
            /\ task'[t].pc # "post" /\ task'[t].mat = 0
            /\ \A k \in KeyIds :
                  /\ store'[k].present = store[k].present
                  /\ store'[k].key_data = store[k].key_data

C19_OnlyActiveKeyIdCreates == [][C19_Step]_vars

C19_Witness ==
    \E t \in AllTasks :
        /\ task[t].op = "dec" /\ task[t].pc = "done" /\ task[t].res.ok
        /\ CacheHas(cache[task[t].proc], task[t].kid)
        /\ CacheGet(cache[task[t].proc], task[t].kid).aware
        /\ { k \in KeyIds : store[k].present } = {task[t].kid}

(* C20: get_key resolution order, observed in the reveal calls of a        *)
(* process configured with the KeyStore.  A cached entry with expires_at   *)
(* after now is returned without a query; an expired entry is removed and  *)
(* the KeyStore queried; an active record replaces the cache entry with    *)
(* the store's material and expires_at; without an active record no key is *)
(* returned and no cache entry is left for the id.                         *)
C20_Lookup(t) ==
    LET tk == task'[t]
        c == cache[tk.proc]
    IN  (Free(t) /\ tk # task[t] /\ tk.op = "dec" /\ mode[tk.proc] = "client") =>
            IF CacheHas(c, tk.kid) /\ CacheGet(c, tk.kid).expires_at > now
            THEN /\ tk.key = CacheGet(c, tk.kid).key
                 /\ tk.pc # "get"
                 /\ cache' = cache
            ELSE /\ tk.pc = "get"
                 /\ ~CacheHas(cache'[tk.proc], tk.kid)

C20_Fetch(t) ==
    LET tk == task'[t]
        c == cache'[tk.proc]
        data == StoreSelectActive(store, tk.kid)
    IN  (task[t].pc = "get" /\ tk # task[t] /\ tk.op = "dec" /\ ~tk.netfail) =>
            IF data # <<>>
            THEN /\ tk.key = data[1].key_data
                 /\ CacheHas(c, tk.kid)
                 /\ CacheGet(c, tk.kid).key = data[1].key_data
                 /\ CacheGet(c, tk.kid).expires_at = data[1].expires_at
            ELSE /\ tk.key = 0
                 /\ ~CacheHas(c, tk.kid)

C20_ResolutionOrder ==
    [][\A t \in AllTasks : C20_Lookup(t) /\ C20_Fetch(t)]_vars

(* C21: get_key is idempotent.  When a reveal call directly follows a      *)
(* finished reveal call of the same process for the same key id (nothing   *)
(* happened in between: the KeyStore, the cache and the clock are as the   *)
(* first call left them), its get_key either goes to the KeyStore again or *)
(* returns what the first call's get_key returned.                         *)
C21_Step ==
    \A t \in AllTasks :
        LET prev == task[t]
            tk == task'[t]
        IN  ( /\ prev.op = "dec" /\ prev.pc = "done"
              /\ tk # prev /\ tk.op = "dec"
              /\ tk.proc = prev.proc /\ tk.kid = prev.kid
              /\ mode[tk.proc] # "uninit" )
            => (tk.pc = "get" \/ tk.key = prev.key)

C21_GetKeyIdempotent == [][C21_Step]_vars

(* C22: after a rotate_keys call that succeeds, the cache of its process   *)
(* holds no entry with expires_at at or before now, every other entry is   *)
(* kept as it was, and the returned count is the number of keys the        *)
(* KeyStore's rotation marked expired.                                     *)
MarkedExpired(st0, st1) ==
    { k \in KeyIds : /\ st0[k].present /\ st0[k].status = "active"
                     /\ st1[k].status = "expired" }

C22_Step ==
    \A t \in AllTasks :
        LET tk == task'[t]
            c0 == cache[tk.proc]
            c1 == cache'[tk.proc]
        IN  ( /\ task[t].pc = "rpc" /\ tk.pc = "done" /\ tk.res.ok )
            => /\ \A i \in 1..Len(c1) : c1[i].expires_at > now
               /\ c1 = SelectSeq(c0, LAMBDA e : e.expires_at > now)
               /\ tk.res.n = Cardinality(MarkedExpired(store, store'))

C22_RotateCount == [][C22_Step]_vars

(* C23: key material is written once.  In every reachable state, a key id  *)
(* that is both in a process's cache and in the KeyStore has the same      *)
(* material in both; generate_key with an explicit id the KeyStore already *)
(* holds replaces neither.                                                 *)
C23_WrittenOnce ==
    \A p \in AllProcs : \A i \in 1..Len(cache[p]) :
        store[cache[p][i].id].present
            => cache[p][i].key = store[cache[p][i].id].key_data

(* C24: uniform authentication failure.  Whenever a reveal has the key     *)
(* material in hand and the tag check fails, the caller-facing error is    *)
(* one and the same value (kind "Token decryption failed", the empty       *)
(* InvalidTag message, no key id), whether the material is not the one the *)
(* blob was sealed with, the blob was altered, or the tenant id is not the *)
(* one it was sealed for.                                                  *)
WrongKey(tk) == Sealed(tk.blob).k # tk.key

WrongTenant(tk) == Sealed(tk.blob).a # Aad(tk.tenant)

Altered(tk) == tk.blob \in TamperedBlobs

TagCheckFailed(tk) ==
    /\ tk.op = "dec" /\ tk.key # 0
    /\ WrongKey(tk) \/ WrongTenant(tk) \/ Altered(tk)

AuthFailure == Err("Token decryption failed", "InvalidTag", NoKey)

C24_UniformAuthFailure ==
    \A t \in AllTasks :
        LET tk == task[t] IN
        TagCheckFailed(tk) =>
            /\ tk.crypto = "fail"
            /\ tk.out = Raise(AuthFailure)
            /\ tk.pc = "done" => tk.res = Raise(AuthFailure)

C24_Witness ==
    \E t \in AllTasks :
        LET tk == task[t] IN
        /\ tk.op = "dec" /\ tk.pc = "done" /\ tk.key # 0
        /\ WrongKey(tk) /\ ~WrongTenant(tk) /\ ~Altered(tk)
        /\ tk.res = Raise(AuthFailure)

(* C25: no key-state oracle.  When get_key finds no usable key for a       *)
(* reveal (the KeyStore has no row for the id, the row is revoked or       *)
(* expired, or the KeyStore could not be reached), the caller-facing error *)
(* is the same value in every case, and the cause is told by the audit     *)
(* record: the record written when the KeyStore could not be reached is    *)
(* not the record written when the KeyStore answered that it has no        *)
(* active key.                                                             *)
KeyUnavailable(key_id) == Err("Token decryption failed", "KeyUnavailable", key_id)

NoUsableKey(tk, st) ==
    \/ tk.netfail
    \/ ~st[tk.kid].present
    \/ st[tk.kid].status \in {"revoked", "expired"}

C25_SameError ==
    \A t \in AllTasks :
        LET tk == task'[t] IN
        ( /\ task[t].op = "dec" /\ task[t].pc = "get" /\ tk # task[t]
          /\ NoUsableKey(tk, store) )
        => tk.out = Raise(KeyUnavailable(tk.kid))

C25_CauseInAudit ==
    \A t \in AllTasks :
        LET tk == task'[t] IN
        ( /\ task[t].op = "dec" /\ task[t].pc = "get" /\ tk # task[t]
          /\ tk.netfail )
        => /\ tk.pend # <<>>
           /\ Head(tk.pend) # FailureRecord(task[t], KeyUnavailable(tk.kid))

C25_NoKeyStateOracle == [][C25_SameError /\ C25_CauseInAudit]_vars

C25_ErrorOnly == [][C25_SameError]_vars

(* C26: on every successful protect the key id in the metadata of the      *)
(* success record is the key id returned to the caller, and that id names  *)
(* (in the key cache of the process) the key whose material sealed the     *)
(* returned blob.                                                          *)
C26_AuditedKeyId ==
    \A t \in AllTasks :
        LET tk == task[t] IN
        (tk.op = "enc" /\ tk.crypto = "ok") =>
            /\ tk.out.ok /\ tk.out.kid # NoKey
            /\ tk.meta = tk.out.kid
            /\ tk.logs # <<>> /\ tk.logs[Len(tk.logs)]
            /\ tk.pc = "audit" => Head(tk.pend).key_id = tk.out.kid
            /\ tk.pc = "done" => tk.res = tk.out
            /\ CacheHas(cache[tk.proc], tk.out.kid)
            /\ CacheGet(cache[tk.proc], tk.out.kid).key = Sealed(tk.out.blob).k

C26_Witness ==
    \E t \in AllTasks :
        LET tk == task[t] IN
        /\ tk.op = "enc" /\ tk.pc = "done" /\ tk.res.ok
        /\ tk.meta = tk.res.kid /\ tk.res.kid # NoKey
        /\ Sealed(tk.res.blob).k = CacheGet(cache[tk.proc], tk.res.kid).key

(* C27: the audit log is append-only.  Every step of protect, reveal,      *)
(* generate_key, get_key and rotate_keys leaves the rows of the AuditSink  *)
(* as they are or adds one row at the end.                                 *)
C27_Step ==
    \/ audit' = audit
    \/ /\ Len(audit') = Len(audit) + 1
       /\ SubSeq(audit', 1, Len(audit)) = audit

C27_AppendOnly == [][C27_Step]_vars

C27_Witness ==
    /\ Len(audit) = MaxAudit + 1
    /\ audit[1].operation = audit[2].operation
    /\ audit[1].success # audit[2].success

(* C28: no internal retry.  reqs counts the requests a call has had        *)
(* answered (or timed out).  A call makes at most one KeyStore read, one   *)
(* KeyStore write and one rotation request, and one AuditSink write per    *)
(* log_operation call, also when a request fails; a reveal writes nothing  *)
(* to the KeyStore, and only rotate_keys sends the rotation request.       *)
C28_NoRetry ==
    \A t \in AllTasks :
        LET tk == task[t] IN
        /\ tk.reqs.get <= 1
        /\ tk.reqs.post <= 1
        /\ tk.reqs.rpc <= 1
        /\ tk.reqs.audit <= Len(tk.logs)
        /\ tk.pc = "audit" => tk.reqs.audit = Len(tk.logs) - 1
        /\ tk.op = "gen" => tk.reqs.get = 0 /\ tk.reqs.audit = 0
        /\ tk.op = "rot" => tk.reqs.get = 0 /\ tk.reqs.post = 0 /\ tk.reqs.audit = 0
        /\ tk.op # "rot" => tk.reqs.rpc = 0
        /\ tk.op = "dec" => tk.reqs.post = 0

C28_Witness ==
    \E t \in AllTasks :
        LET tk == task[t] IN
        /\ tk.op = "dec" /\ tk.pc = "done" /\ tk.netfail /\ tk.auditFail
        /\ tk.reqs = [get |-> 1, post |-> 0, rpc |-> 0, audit |-> 1]
        /\ ~tk.res.ok

(* C29: a key generated at time T has expires_at = T + 90 days in its      *)
(* KeyStore record and in its cache entry, and the process that generated  *)
(* it never picks it as the active key at or after T + 90 days: a protect  *)
(* call that takes its key from the cache takes one generated less than    *)
(* 90 days before.                                                         *)
C29_Expiry ==
    /\ \A k \in KeyIds :
          store[k].present => store[k].expires_at = store[k].created_at + KeyTTLDays
    /\ \A p \in AllProcs : \A i \in 1..Len(cache[p]) :
          cache[p][i].expires_at = cache[p][i].created_at + KeyTTLDays

C29_Step ==
    \A t \in AllTasks :
        LET tk == task'[t]
            c == cache[tk.proc]
        IN  ( /\ Free(t) /\ tk # task[t] /\ tk.op = "enc"
              /\ tk.kid # NoKey /\ CacheHas(c, tk.kid) )
            => now < CacheGet(c, tk.kid).created_at + KeyTTLDays

C29_NinetyDays == []C29_Expiry /\ [][C29_Step]_vars

C29_Witness ==
    \E t \in AllTasks, k \in KeyIds :
        LET tk == task[t]
            c == cache[tk.proc]
        IN  /\ tk.op = "enc" /\ tk.pc = "done" /\ tk.res.ok
            /\ store[k].present /\ store[k].created_at = 0
            /\ store[k].expires_at = KeyTTLDays
            /\ CacheHas(c, k) /\ ~CacheGet(c, k).aware
            /\ CacheGet(c, k).created_at = 0
            /\ CacheGet(c, k).expires_at = KeyTTLDays
            /\ now = KeyTTLDays
            /\ tk.res.kid # k
            /\ CacheGet(c, tk.res.kid).created_at = now

(* C30: no secret leaves through the error or audit channel.  The error a  *)
(* protect or reveal call raises and every audit record it issues are made *)
(* of fixed message texts, the call's key id and its tenant id; no part of *)
(* the plaintext and no key material is in them.                           *)
ErrorKinds ==
    {"none", "pending", "Token encryption failed", "Token decryption failed",
     "Invalid Slack token format", "Invalid token format",
     "Encryption infrastructure not initialized"}

ErrorDetails == {"", "InvalidTag", "TypeError", "KeyUnavailable"}

SecretChars(tk) ==
    { tk.token.chars[i] : i \in 1..Len(tk.token.chars) }
      \cup { tk.out.tok.chars[i] : i \in 1..Len(tk.out.tok.chars) }

PublicError(tk, err) ==
    /\ err.kind \in ErrorKinds
    /\ err.detail \in ErrorDetails
    /\ err.detail \notin SecretChars(tk)
    /\ err.key \in {NoKey, tk.kid}

PublicRecord(tk, rec) ==
    /\ PublicError(tk, rec.error_message)
    /\ rec.tenant_id = tk.tenant
    /\ rec.key_id \in {NoKey, tk.kid}
    /\ rec.operation \in {"token_stored", "token_retrieved"}
    /\ rec.success \in BOOLEAN

C30_NoSecretInErrors ==
    \A t \in AllTasks :
        LET tk == task[t] IN
        Audited(tk) =>
            /\ PublicError(tk, tk.out.err)
            /\ PublicError(tk, tk.res.err)
            /\ \A i \in 1..Len(tk.pend) : PublicRecord(tk, tk.pend[i])
            /\ tk.meta \in {NoKey, tk.kid}

(* C31: validate_token_format returns true exactly for the non-empty       *)
(* strings that begin with the five characters xoxb- and are at least 50   *)
(* characters long, and false for every other value, strings or not.       *)
WellFormed(token) ==
    /\ token.str
    /\ Len(token.chars) >= MinTokenLen
    /\ Len(token.chars) > 0
    /\ \A i \in 1..Len(XoxbPrefix) : token.chars[i] = XoxbPrefix[i]

C31_FormatCheck ==
    \A t \in AllTasks :
        LET tk == task[t] IN
        (tk.op = "val" /\ tk.pc = "done") =>
            /\ tk.res.ok = WellFormed(tk.token)
            /\ tk.res.err = NoErr

C31_Witness ==
    \E t \in AllTasks :
        LET tk == task[t] IN
        /\ tk.op = "val" /\ tk.pc = "done"
        /\ tk.token.str /\ Len(tk.token.chars) = MinTokenLen
        /\ tk.res.ok

(* C32: a rotate_keys call that fails (no store client, a non-200 answer   *)
(* to the rotation request, a network exception or any exception after the *)
(* answer) returns an error result and leaves the key cache of its process *)
(* exactly as it was before the call.                                      *)
C32_Step ==
    \A t \in AllTasks :
        LET tk == task'[t] IN
        ( /\ tk # task[t] /\ tk.op = "rot" /\ tk.pc = "done" /\ ~tk.res.ok )
        => /\ cache' = cache
           /\ tk.res.err.kind \in {"Supabase client not available",
                                   "Key rotation failed", "TypeError"}
           /\ tk.res.n = 0

C32_State ==
    \A t \in AllTasks :
        (task[t].op = "rot" /\ task[t].pc = "rpc") => task[t].out = NoRes

C32_FailedRotationFrame == []C32_State /\ [][C32_Step]_vars

C32_Witness ==
    \E t \in AllTasks :
        LET tk == task[t]
            c == cache[tk.proc]
        IN  /\ tk.op = "rot" /\ tk.pc = "done" /\ ~tk.res.ok /\ tk.netfail
            /\ c # <<>> /\ c[1].expires_at <= now

(* C33: cache deletions are race-free.  Under every interleaving of two    *)
(* coroutines on one KeyManager no call ends in KeyError (a deletion of an *)
(* id that is not in the cache) or RuntimeError (the cache changed while   *)
(* it was iterated), and the cache keeps one entry per key id.             *)
C33_RaceFree ==
    /\ \A t \in AllTasks :
          /\ task[t].out.err.kind \notin {"KeyError", "RuntimeError"}
          /\ task[t].res.err.kind \notin {"KeyError", "RuntimeError"}
    /\ \A p \in AllProcs : \A i, j \in 1..Len(cache[p]) :
          cache[p][i].id = cache[p][j].id => i = j

C33_Witness ==
    \E t \in AllTasks :
        LET tk == task[t] IN
        /\ tk.op = "rot" /\ tk.pc = "done" /\ tk.res.ok
        /\ tk.snap # {} /\ tk.res.n = 0
        /\ \E u \in AllTasks \ {t} : task[u].op = "dec" /\ task[u].pc = "get"

(* C34: re-initialisation preserves decryptability.  A reveal, in the      *)
(* process that protected it, of the blob a successful protect returned,   *)
(* with the key id it returned and its tenant id, yields the secret that   *)
(* was protected, whatever initialize_encryption calls came in between     *)
(* (a KeyStore that cannot be reached during the reveal excepted).         *)
C34_ReinitKeepsDecryptability ==
    \A t \in AllTasks :
        LET tk == task[t] IN
        ( /\ tk.op = "dec" /\ tk.pc = "done"
          /\ tk.rt /\ tk.tenant = tk.rtTenant
          /\ ~tk.netfail )
        => /\ tk.res.ok
           /\ tk.res.tok = tk.rtTok

(* C35: before initialize_encryption has been called in a process, its     *)
(* protect and reveal calls raise EncryptionError at once: no audit record *)
(* is issued, no request is sent, no key is made or cached, and while no   *)
(* process is initialised the KeyStore and the AuditSink stay empty.       *)
C35_UninitializedRaises ==
    /\ \A t \in AllTasks :
          LET tk == task[t] IN
          (Audited(tk) /\ mode[tk.proc] = "uninit") =>
              /\ tk.pc = "done"
              /\ tk.res = Raise(Err("Encryption infrastructure not initialized", "", NoKey))
              /\ tk.logs = <<>> /\ tk.pend = <<>>
              /\ tk.reqs = [get |-> 0, post |-> 0, rpc |-> 0, audit |-> 0]
              /\ tk.key = 0 /\ tk.mat = 0
    /\ \A p \in AllProcs : mode[p] = "uninit" => cache[p] = <<>>
    /\ (\A p \in AllProcs : mode[p] = "uninit") =>
          /\ audit = <<>>
          /\ nextMat = 1
          /\ \A k \in KeyIds : ~store[k].present

C35_Witness ==
    \E t \in AllTasks :
        LET tk == task[t] IN
        /\ tk.op = "dec" /\ tk.pc = "done" /\ mode[tk.proc] = "uninit"
        /\ store[tk.kid].present /\ store[tk.kid].status = "active"
        /\ Sealed(tk.blob).k = store[tk.kid].key_data
        /\ ~tk.res.ok /\ tk.logs = <<>>

(* C36: every encrypted bot token in the tenants table is stored with a    *)
(* reference to a persisted key that decrypts it: the blob of the          *)
(* encrypted_bot_token column with the id of a KeyStore record that holds  *)
(* the material it was sealed with, and no ciphertext (access_token        *)
(* column) whose key is in no KeyStore record.                             *)
FernetKeyOf(blob) == B64Decode(blob)[1].fk

C36_Row(row) ==
    /\ row.encrypted_bot_token # NoBlob =>
          /\ row.encryption_key_id # NoKey
          /\ store[row.encryption_key_id].present
          /\ store[row.encryption_key_id].key_data = Sealed(row.encrypted_bot_token).k
    /\ row.access_token # NoBlob =>
          \E k \in KeyIds : /\ store[k].present
                            /\ store[k].key_data = FernetKeyOf(row.access_token)

C36_InstallationKeyPersisted ==
    \A ten \in Tenants : tenants[ten].present => C36_Row(tenants[ten])

(* C37: log_operation returns true only when the AuditSink accepted the    *)
(* record (a 201 answer, one more row in the log); in every other case,    *)
(* also without a sink client, it returns false; it never raises.  Every   *)
(* value that log_operation returns in a step is true exactly when the     *)
(* step added a row to the AuditSink.                                      *)
C37_Fresh(t) ==
    IF task[t].pc = "audit"
    THEN SubSeq(task'[t].acks, Len(task[t].acks) + 1, Len(task'[t].acks))
    ELSE IF Free(t) /\ task'[t] # task[t] THEN task'[t].acks
    ELSE <<>>

C37_Step ==
    \A t \in AllTasks : \A i \in DOMAIN C37_Fresh(t) :
        C37_Fresh(t)[i] <=> Len(audit') = Len(audit) + 1

C37_LogReturnsAcceptance == [][C37_Step]_vars

====
